---- MODULE Spec2Model ----
(***************************************************************************)
(* Model of .github/scripts/update-stats.js: the contribution-streak       *)
(* computation (getStreakStats), the language ranking (getLanguageStats)   *)
(* and the README splice (updateReadme).                                   *)
(*                                                                         *)
(* Calendar dates are day numbers (integers).  Instants are counted in     *)
(* hours since UTC midnight of day 0.  Language names are identifiers      *)
(* 1..NumLangs standing for the (non-numeric) names GitHub reports.        *)
(***************************************************************************)
EXTENDS Integers, Sequences, FiniteSets, TLC

VARIABLES
    pcS,                 \* getStreakStats: position of the async function
    response,            \* getStreakStats: what the GraphQL request produced
    days,                \* getStreakStats: the flattened contribution days
    today,               \* getStreakStats: local calendar date of the run
    tzOffset,            \* getStreakStats: local zone's offset from UTC, hours
    currentStreak,       \* getStreakStats: returned field
    longestStreak,       \* getStreakStats: returned field
    activeDaysThisYear,  \* getStreakStats: returned field
    streakPromise,       \* getStreakStats: state of the promise it returns
    pcL,                 \* getLanguageStats: position of the async function
    repos,               \* getLanguageStats: the repository list
    r,                   \* getLanguageStats: index of the repo the loop is at
    languageStats,       \* getLanguageStats: the accumulator object
    sorted,              \* getLanguageStats: top entries after sort and slice
    total,               \* getLanguageStats: sum of the retained bytes
    langResult,          \* getLanguageStats: the returned list
    pcR,                 \* updateReadme: position of the script's run
    readmeContent,       \* updateReadme: content of README.md on disk
    newContent,          \* updateReadme: the content about to be written
    prevContent,         \* updateReadme: content on disk before the last write
    runs                 \* updateReadme: runs of the script that wrote the file

streakVars == <<pcS, response, days, today, tzOffset, currentStreak,
                longestStreak, activeDaysThisYear, streakPromise>>
langVars == <<pcL, repos, r, languageStats, sorted, total, langResult>>
readmeVars == <<pcR, readmeContent, newContent, prevContent, runs>>
vars == <<streakVars, langVars, readmeVars>>

----------------------------------------------------------------------------
(* Bounds of the model *)

MaxDays == 4
MaxDate == 4
MaxReadmeLen == 3
MaxRuns == 2
MaxRepos == 2
MaxBytes == 1
NumLangs == 9

(* Program constants *)

HoursPerDay == 24
Limit == 8

Dates == 0 .. MaxDate
Counts == {0, 1, 3}
Todays == -1 .. (MaxDate + 1)
TZOffsets == {-5, 0, 2}

----------------------------------------------------------------------------
(* Helpers *)

Max(a, b) == IF a >= b THEN a ELSE b

Min(a, b) == IF a <= b THEN a ELSE b

MinOf(S) == CHOOSE x \in S : \A y \in S : x <= y

RECURSIVE Ascending(_)
Ascending(S) ==
    IF S = {} THEN <<>>
    ELSE <<MinOf(S)>> \o Ascending(S \ {MinOf(S)})

(* The day sequences the calendar can deliver: ascending by date, no date   *)
(* twice, gaps allowed.                                                     *)
DaySeqs ==
    UNION { { [k \in 1 .. Cardinality(S) |->
                 [date |-> Ascending(S)[k], count |-> c[k]]] :
              c \in [1 .. Cardinality(S) -> Counts] } :
            S \in { T \in SUBSET Dates : Cardinality(T) <= MaxDays } }

----------------------------------------------------------------------------
(* getStreakStats *)

(* new Date(days[i].date) is UTC midnight of the date; today is local       *)
(* midnight (setHours(0, 0, 0, 0)), which is tz hours before UTC midnight   *)
(* of the local date.                                                       *)
DiffDays(t, tz, date) ==
    ((t * HoursPerDay - tz) - date * HoursPerDay) \div HoursPerDay

RECURSIVE ScanBackNoZeroBreak(_, _, _, _, _)
ScanBackNoZeroBreak(ds, t, tz, i, cs) ==
    IF i < 1 THEN cs
    ELSE IF DiffDays(t, tz, ds[i].date) > cs THEN cs
    ELSE IF ds[i].count > 0 THEN ScanBackNoZeroBreak(ds, t, tz, i - 1, cs + 1)
    ELSE ScanBackNoZeroBreak(ds, t, tz, i - 1, cs)

(* The backward loop, from index i with currentStreak = cs. *)
RECURSIVE ScanBack(_, _, _, _, _)
ScanBack(ds, t, tz, i, cs) ==
    IF i < 1 THEN cs
    ELSE IF DiffDays(t, tz, ds[i].date) > cs THEN cs
    ELSE IF ds[i].count > 0 THEN ScanBack(ds, t, tz, i - 1, cs + 1)
    ELSE IF cs > 0 THEN cs
    ELSE ScanBack(ds, t, tz, i - 1, cs)

CurrentStreakOf(ds, t, tz) == ScanBack(ds, t, tz, Len(ds), 0)

RECURSIVE ForwardNoReset(_, _, _, _)
ForwardNoReset(ds, k, temp, longest) ==
    IF k > Len(ds) THEN longest
    ELSE IF ds[k].count > 0
         THEN ForwardNoReset(ds, k + 1, temp + 1, Max(longest, temp + 1))
         ELSE ForwardNoReset(ds, k + 1, temp, longest)

(* The forward loop, from index k with tempStreak = temp. *)
RECURSIVE Forward(_, _, _, _)
Forward(ds, k, temp, longest) ==
    IF k > Len(ds) THEN longest
    ELSE IF ds[k].count > 0
         THEN Forward(ds, k + 1, temp + 1, Max(longest, temp + 1))
         ELSE Forward(ds, k + 1, 0, longest)

LongestStreakOf(ds) == Forward(ds, 1, 0, 0)

ActiveDaysAtLeastTwo(ds) ==
    Cardinality({k \in DOMAIN ds : ds[k].count > 1})

ActiveDaysOf(ds) == Cardinality({k \in DOMAIN ds : ds[k].count > 0})

Failures == {"requestError", "non200", "noCalendar"}

SendRequest ==
    /\ pcS = "start"
    /\ pcS' = "awaiting"
    /\ UNCHANGED <<response, days, today, tzOffset, currentStreak,
                   longestStreak, activeDaysThisYear, streakPromise>>
    /\ UNCHANGED <<langVars, readmeVars>>

(* Status 200 with the calendar structure: days is built. *)
ReceiveCalendar ==
    /\ pcS = "awaiting"
    /\ \E ds \in DaySeqs : days' = ds
    /\ response' = "calendar"
    /\ pcS' = "compute"
    /\ UNCHANGED <<today, tzOffset, currentStreak, longestStreak,
                   activeDaysThisYear, streakPromise>>
    /\ UNCHANGED <<langVars, readmeVars>>

RethrowHandler ==
    /\ pcS' = "done"
    /\ streakPromise' = "rejected"
    /\ UNCHANGED <<currentStreak, longestStreak, activeDaysThisYear>>

(* The catch block. *)
CatchHandler ==
    /\ pcS' = "done"
    /\ currentStreak' = 0
    /\ longestStreak' = 0
    /\ activeDaysThisYear' = 0
    /\ streakPromise' = "fulfilled"

(* The request errors, the status is not 200, or the 200 body lacks         *)
(* data.user.contributionsCollection.contributionCalendar.weeks: the        *)
(* awaited promise rejects or the property access throws, inside the try.   *)
ReceiveFailure ==
    /\ pcS = "awaiting"
    /\ \E f \in Failures : response' = f
    /\ CatchHandler
    /\ UNCHANGED <<days, today, tzOffset>>
    /\ UNCHANGED <<langVars, readmeVars>>

(* Status 200 with a body that is not JSON: JSON.parse throws inside the    *)
(* "end" listener, outside the promise and the try; the process dies on     *)
(* the uncaught exception and the promise is never settled.                 *)
ReceiveBadJson ==
    /\ pcS = "awaiting"
    /\ response' = "badJson"
    /\ pcS' = "crashed"
    /\ UNCHANGED <<days, today, tzOffset, currentStreak, longestStreak,
                   activeDaysThisYear, streakPromise>>
    /\ UNCHANGED <<langVars, readmeVars>>

ComputeStreaks ==
    /\ pcS = "compute"
    /\ \E t \in Todays, tz \in TZOffsets :
          /\ today' = t
          /\ tzOffset' = tz
          /\ currentStreak' = CurrentStreakOf(days, t, tz)
    /\ longestStreak' = LongestStreakOf(days)
    /\ activeDaysThisYear' = ActiveDaysOf(days)
    /\ streakPromise' = "fulfilled"
    /\ pcS' = "done"
    /\ UNCHANGED <<response, days>>
    /\ UNCHANGED <<langVars, readmeVars>>

(* getStreakStats has been called; the other two components are idle. *)
StreakInit ==
    /\ pcS = "start"
    /\ response = "none"
    /\ days = <<>>
    /\ today = 0
    /\ tzOffset = 0
    /\ currentStreak = 0
    /\ longestStreak = 0
    /\ activeDaysThisYear = 0
    /\ streakPromise = "pending"
    /\ pcL = "idle"
    /\ repos = <<>>
    /\ r = 0
    /\ languageStats = <<>>
    /\ sorted = <<>>
    /\ total = 0
    /\ langResult = <<>>
    /\ pcR = "idle"
    /\ readmeContent = <<>>
    /\ newContent = <<>>
    /\ prevContent = <<>>
    /\ runs = 0

StreakNext ==
    \/ SendRequest
    \/ ReceiveCalendar
    \/ ReceiveFailure
    \/ ReceiveBadJson
    \/ ComputeStreaks

StreakSpec == StreakInit /\ [][StreakNext]_vars

----------------------------------------------------------------------------
(* getLanguageStats *)

(* A languages response is a JSON object; it is modelled as the sequence of *)
(* its entries in key order.  SmallLangs holds the first and the last       *)
(* language; a response names no language, one language, two languages      *)
(* with the same bytes (in either order), or every language once.           *)
SmallLangs == {1, NumLangs}

Entries == [lang : SmallLangs, bytes : 0 .. MaxBytes]

SmallMaps ==
    {<<>>} \cup {<<e>> : e \in Entries}
           \cup {<<p[1], p[2]>> :
                   p \in {q \in Entries \X Entries :
                            q[1].lang # q[2].lang /\ q[1].bytes = q[2].bytes}}

WideMaps ==
    {[k \in 1 .. NumLangs |-> [lang |-> k, bytes |-> b]] : b \in 1 .. MaxBytes}

(* A repository of the list: its fork flag and what the request for its     *)
(* languages answers (fails: the request errors or is not a 200).           *)
Repos ==
    [fork : BOOLEAN, fails : {FALSE}, languages : SmallMaps \cup WideMaps]
    \cup [fork : BOOLEAN, fails : {TRUE}, languages : {<<>>}]

RepoSeqs == UNION {[1 .. n -> Repos] : n \in 0 .. MaxRepos}

SkipsNothing(repo) == FALSE

(* if (repo.fork) continue *)
SkipsRepo(repo) == repo.fork

HasLang(stats, lang) == \E k \in DOMAIN stats : stats[k].lang = lang

(* languageStats[lang] = (languageStats[lang] || 0) + bytes: an existing    *)
(* key keeps its place, a new key is inserted last.                         *)
AddEntry(stats, e) ==
    IF HasLang(stats, e.lang)
    THEN [k \in DOMAIN stats |->
            IF stats[k].lang = e.lang
            THEN [lang |-> e.lang, bytes |-> stats[k].bytes + e.bytes]
            ELSE stats[k]]
    ELSE Append(stats, e)

RECURSIVE Merge(_, _)
Merge(stats, languages) ==
    IF languages = <<>> THEN stats
    ELSE Merge(AddEntry(stats, Head(languages)), Tail(languages))

(* Position of e in a list sorted by (a, b) => b[1] - a[1]: the sort is     *)
(* stable, so e goes after every entry with at least its bytes.             *)
RECURSIVE InsertDesc(_, _)
InsertDesc(s, e) ==
    IF s = <<>> THEN <<e>>
    ELSE IF Head(s).bytes >= e.bytes
         THEN <<Head(s)>> \o InsertDesc(Tail(s), e)
         ELSE <<e>> \o s

RECURSIVE InsertAsc(_, _)
InsertAsc(s, e) ==
    IF s = <<>> THEN <<e>>
    ELSE IF Head(s).bytes <= e.bytes
         THEN <<Head(s)>> \o InsertAsc(Tail(s), e)
         ELSE <<e>> \o s

RECURSIVE SortAscFrom(_, _)
SortAscFrom(acc, s) ==
    IF s = <<>> THEN acc
    ELSE SortAscFrom(InsertAsc(acc, Head(s)), Tail(s))

RECURSIVE SortFrom(_, _)
SortFrom(acc, s) ==
    IF s = <<>> THEN acc
    ELSE SortFrom(InsertDesc(acc, Head(s)), Tail(s))

SortByBytesAsc(s) == SortAscFrom(<<>>, s)

(* Object.entries(languageStats).sort((a, b) => b[1] - a[1]) *)
SortByBytes(s) == SortFrom(<<>>, s)

(* .slice(0, 8) *)
Slice(s) == SubSeq(s, 1, Min(Limit, Len(s)))

RECURSIVE SumBytes(_)
SumBytes(s) == IF s = <<>> THEN 0 ELSE Head(s).bytes + SumBytes(Tail(s))

(* ((bytes / total) * 100).toFixed(1): the string "NaN" for 0 / 0,          *)
(* otherwise the value rounded to a tenth, halves upward; tenths holds the  *)
(* digits of the string as a number of tenths.                              *)
ToFixed1(bytes, tot) ==
    IF tot = 0
    THEN [nan |-> TRUE, tenths |-> 0]
    ELSE [nan |-> FALSE, tenths |-> (2000 * bytes + tot) \div (2 * tot)]

Percentages(s, tot) ==
    [k \in DOMAIN s |->
        [lang |-> s[k].lang, percentage |-> ToFixed1(s[k].bytes, tot)]]

FetchRepos ==
    /\ pcL = "start"
    /\ \E rs \in RepoSeqs : repos' = rs
    /\ r' = 1
    /\ pcL' = "loop"
    /\ UNCHANGED <<languageStats, sorted, total, langResult>>
    /\ UNCHANGED <<streakVars, readmeVars>>

(* The request for the repository list fails: nothing catches it. *)
FetchReposFails ==
    /\ pcL = "start"
    /\ pcL' = "rejected"
    /\ UNCHANGED <<repos, r, languageStats, sorted, total, langResult>>
    /\ UNCHANGED <<streakVars, readmeVars>>

SkipFork ==
    /\ pcL = "loop"
    /\ r <= Len(repos)
    /\ SkipsRepo(repos[r])
    /\ r' = r + 1
    /\ UNCHANGED <<pcL, repos, languageStats, sorted, total, langResult>>
    /\ UNCHANGED <<streakVars, readmeVars>>

FetchLanguages ==
    /\ pcL = "loop"
    /\ r <= Len(repos)
    /\ ~SkipsRepo(repos[r])
    /\ ~repos[r].fails
    /\ languageStats' = Merge(languageStats, repos[r].languages)
    /\ r' = r + 1
    /\ UNCHANGED <<pcL, repos, sorted, total, langResult>>
    /\ UNCHANGED <<streakVars, readmeVars>>

(* The catch inside the loop logs the error and goes on. *)
FetchLanguagesFails ==
    /\ pcL = "loop"
    /\ r <= Len(repos)
    /\ ~SkipsRepo(repos[r])
    /\ repos[r].fails
    /\ r' = r + 1
    /\ UNCHANGED <<pcL, repos, languageStats, sorted, total, langResult>>
    /\ UNCHANGED <<streakVars, readmeVars>>

RankAndReturn ==
    /\ pcL = "loop"
    /\ r > Len(repos)
    /\ sorted' = Slice(SortByBytes(languageStats))
    /\ total' = SumBytes(sorted')
    /\ langResult' = Percentages(sorted', total')
    /\ pcL' = "done"
    /\ UNCHANGED <<repos, r, languageStats>>
    /\ UNCHANGED <<streakVars, readmeVars>>

(* getLanguageStats has been called; the other two components are idle. *)
LangInit ==
    /\ pcS = "idle"
    /\ response = "none"
    /\ days = <<>>
    /\ today = 0
    /\ tzOffset = 0
    /\ currentStreak = 0
    /\ longestStreak = 0
    /\ activeDaysThisYear = 0
    /\ streakPromise = "pending"
    /\ pcL = "start"
    /\ repos = <<>>
    /\ r = 0
    /\ languageStats = <<>>
    /\ sorted = <<>>
    /\ total = 0
    /\ langResult = <<>>
    /\ pcR = "idle"
    /\ readmeContent = <<>>
    /\ newContent = <<>>
    /\ prevContent = <<>>
    /\ runs = 0

LangNext ==
    \/ FetchRepos
    \/ FetchReposFails
    \/ SkipFork
    \/ FetchLanguages
    \/ FetchLanguagesFails
    \/ RankAndReturn

LangSpec == LangInit /\ [][LangNext]_vars

----------------------------------------------------------------------------
(* updateReadme *)

(* README.md is a sequence of pieces: the start marker, the end marker,     *)
(* the rendered section as it is written between the markers               *)
(* ("\n" + statsSection + "\n"), the trimmed section, and any other text.   *)
(* Both markers begin with "<" and hold no other "<", so no marker          *)
(* overlaps another or straddles two pieces.                                *)
startMarker == "<!-- STATS:START -->"

endMarker == "<!-- STATS:END -->"

statsSection == "statsSection"

statsSectionTrimmed == "statsSection.trim()"

Pieces == {startMarker, endMarker, statsSection, "text"}

Contents == UNION {[1 .. n -> Pieces] : n \in 0 .. MaxReadmeLen}

(* readmeContent.includes(marker) *)
Includes(content, marker) == \E k \in DOMAIN content : content[k] = marker

(* readmeContent.indexOf(marker), as the place of the piece *)
IndexOf(content, marker) ==
    MinOf({k \in DOMAIN content : content[k] = marker})

(* The content updateReadme writes for the content it read. *)
Splice(content) ==
    IF Includes(content, startMarker) /\ Includes(content, endMarker)
    THEN LET start == IndexOf(content, startMarker)
             end == IndexOf(content, endMarker)
         IN  SubSeq(content, 1, start - 1)
                 \o <<startMarker, statsSection, endMarker>>
                 \o SubSeq(content, end + 1, Len(content))
    ELSE <<statsSectionTrimmed>>

(* The script is started: it fetches the four stats. *)
StartRun ==
    /\ pcR \in {"idle", "exited"}
    /\ runs < MaxRuns
    /\ pcR' = "fetching"
    /\ UNCHANGED <<readmeContent, newContent, prevContent, runs>>
    /\ UNCHANGED <<streakVars, langVars>>

(* One of the awaited promises rejects: the catch exits with status 1 and   *)
(* the file is not written.                                                 *)
ExitOnError ==
    /\ pcR = "fetching"
    /\ pcR' = "exited"
    /\ UNCHANGED <<readmeContent, newContent, prevContent, runs>>
    /\ UNCHANGED <<streakVars, langVars>>

(* The stats arrived: the file is read and the new content is built. *)
BuildContent ==
    /\ pcR = "fetching"
    /\ newContent' = Splice(readmeContent)
    /\ pcR' = "built"
    /\ UNCHANGED <<readmeContent, prevContent, runs>>
    /\ UNCHANGED <<streakVars, langVars>>

(* fs.writeFileSync(readmePath, newContent) *)
WriteReadme ==
    /\ pcR = "built"
    /\ prevContent' = readmeContent
    /\ readmeContent' = newContent
    /\ runs' = runs + 1
    /\ pcR' = "idle"
    /\ UNCHANGED newContent
    /\ UNCHANGED <<streakVars, langVars>>

(* The script has not run yet; README.md holds any content. *)
ReadmeInit ==
    /\ pcS = "idle"
    /\ response = "none"
    /\ days = <<>>
    /\ today = 0
    /\ tzOffset = 0
    /\ currentStreak = 0
    /\ longestStreak = 0
    /\ activeDaysThisYear = 0
    /\ streakPromise = "pending"
    /\ pcL = "idle"
    /\ repos = <<>>
    /\ r = 0
    /\ languageStats = <<>>
    /\ sorted = <<>>
    /\ total = 0
    /\ langResult = <<>>
    /\ pcR = "idle"
    /\ readmeContent \in Contents
    /\ newContent = <<>>
    /\ prevContent = <<>>
    /\ runs = 0

ReadmeNext ==
    \/ StartRun
    \/ ExitOnError
    \/ BuildContent
    \/ WriteReadme

ReadmeSpec == ReadmeInit /\ [][ReadmeNext]_vars

----------------------------------------------------------------------------
(* Properties of getStreakStats *)

MaxOf(S) == CHOOSE x \in S : \A y \in S : x >= y

AllActive(ds, a, b) == \A j \in a .. b : ds[j].count > 0

(* Length of the maximal run of active entries that ends at index k. *)
RunEndingAt(ds, k) ==
    IF k < 1 THEN 0
    ELSE MaxOf({n \in 0 .. k : AllActive(ds, k - n + 1, k)})

(* Length of the longest run of active entries anywhere in ds. *)
LongestRun(ds) == MaxOf({RunEndingAt(ds, k) : k \in 0 .. Len(ds)})

Gapless(ds) == \A k \in 1 .. Len(ds) - 1 : ds[k + 1].date = ds[k].date + 1

Returned == pcS = "done" /\ response = "calendar"

(* C1: for every ascending, duplicate-free day sequence and every today,    *)
(* the returned result satisfies activeDays >= longestStreak >= 0 and       *)
(* activeDays >= currentStreak >= 0.                                        *)
C1_StreakBounds ==
    Returned =>
        /\ activeDaysThisYear >= longestStreak
        /\ longestStreak >= 0
        /\ activeDaysThisYear >= currentStreak
        /\ currentStreak >= 0

C1_Witness ==
    /\ Returned
    /\ activeDaysThisYear > longestStreak
    /\ longestStreak > currentStreak
    /\ currentStreak > 0

(* C2: for a gapless day sequence whose last entry is dated today,          *)
(* currentStreak is the length of the run of active days that ends at       *)
(* today, or, when today's count is 0, that ends at the day before today.   *)
C2_CurrentStreakIsRunAtToday ==
    (/\ Returned
     /\ days # <<>>
     /\ Gapless(days)
     /\ days[Len(days)].date = today)
    => currentStreak =
          IF days[Len(days)].count > 0
          THEN RunEndingAt(days, Len(days))
          ELSE RunEndingAt(days, Len(days) - 1)

(* C3: longestStreak is the length of the longest run of consecutive        *)
(* entries with count > 0 in the whole sequence, 0 when there is none.      *)
C3_LongestIsLongestRun == Returned => longestStreak = LongestRun(days)

C3_Witness ==
    /\ Returned
    /\ Len(days) = 4
    /\ longestStreak = 2
    /\ days[3].count = 0
    /\ days[4].count > 0

C8_CurrentCanExceedLongest ==
    pcS = "awaiting" =>
        \E ds \in DaySeqs, t \in Todays, tz \in TZOffsets :
            CurrentStreakOf(ds, t, tz) > LongestStreakOf(ds)

(* C8 amended: every returned result has longestStreak >= currentStreak.    *)
C8_LongestBoundsCurrent == Returned => longestStreak >= currentStreak

C8_Witness ==
    /\ Returned
    /\ currentStreak = longestStreak
    /\ currentStreak >= 2
    /\ activeDaysThisYear > currentStreak

----------------------------------------------------------------------------
(* Properties of getLanguageStats *)

Langs == 1 .. NumLangs

(* The non-fork repositories among the first n.  One whose languages        *)
(* request failed delivered no usage map: its languages are empty.          *)
Counted(rs, n) == {k \in 1 .. n : ~rs[k].fork}

BytesOf(languages, lang) ==
    IF HasLang(languages, lang)
    THEN languages[CHOOSE j \in DOMAIN languages : languages[j].lang = lang].bytes
    ELSE 0

RECURSIVE SumOver(_, _, _)
SumOver(rs, K, lang) ==
    IF K = {} THEN 0
    ELSE LET k == CHOOSE x \in K : TRUE
         IN  BytesOf(rs[k].languages, lang) + SumOver(rs, K \ {k}, lang)

(* Sum of lang's bytes over the non-fork repositories among the first n. *)
RefBytes(rs, n, lang) == SumOver(rs, Counted(rs, n), lang)

(* The languages the non-fork repositories among the first n name. *)
RefLangs(rs, n) ==
    {l \in Langs : \E k \in Counted(rs, n) : HasLang(rs[k].languages, l)}

(* Place of lang's first occurrence in the non-fork input, repository by    *)
(* repository and entry by entry.                                           *)
FirstOcc(rs, n, lang) ==
    LET places == {q \in Counted(rs, n) \X (1 .. NumLangs) :
                      /\ q[2] \in DOMAIN rs[q[1]].languages
                      /\ rs[q[1]].languages[q[2]].lang = lang}
    IN  MinOf({q[1] * (NumLangs + 1) + q[2] : q \in places})

(* lang's place in the ranking: bytes descending, equal bytes by first      *)
(* occurrence.                                                              *)
RankOf(rs, n, lang) ==
    1 + Cardinality({m \in RefLangs(rs, n) :
          \/ RefBytes(rs, n, m) > RefBytes(rs, n, lang)
          \/ /\ RefBytes(rs, n, m) = RefBytes(rs, n, lang)
             /\ FirstOcc(rs, n, m) < FirstOcc(rs, n, lang)})

Abs(x) == IF x < 0 THEN -x ELSE x

RECURSIVE SumTenths(_)
SumTenths(res) ==
    IF res = <<>> THEN 0
    ELSE Head(res).percentage.tenths + SumTenths(Tail(res))

(* C5: the bytes accumulated for each language are the sum of its bytes     *)
(* over the non-fork repositories only; a fork adds no bytes and brings no  *)
(* language into the accumulator or into the returned ranking.              *)
C5_ForksNeverCounted ==
    pcL \in {"loop", "done"} =>
        /\ \A l \in Langs :
              /\ BytesOf(languageStats, l) = RefBytes(repos, r - 1, l)
              /\ HasLang(languageStats, l) <=> l \in RefLangs(repos, r - 1)
        /\ \A p \in DOMAIN langResult :
              langResult[p].lang \in RefLangs(repos, Len(repos))

C5_Witness ==
    /\ pcL = "done"
    /\ langResult # <<>>
    /\ \E k \in DOMAIN repos :
          /\ repos[k].fork
          /\ \E j \in DOMAIN repos[k].languages :
                /\ repos[k].languages[j].bytes > 0
                /\ ~HasLang(languageStats, repos[k].languages[j].lang)

(* C6: when at least one entry is returned, the returned percentages sum    *)
(* to 100.0 within 0.1 times the number of entries.                         *)
C6_PercentagesSumTo100 ==
    (pcL = "done" /\ langResult # <<>>) =>
        /\ \A p \in DOMAIN langResult : ~langResult[p].percentage.nan
        /\ Abs(SumTenths(langResult) - 1000) <= Len(langResult)

(* C7: the returned names are the first min(8, n) of the n aggregated       *)
(* languages ordered by aggregated bytes descending, equal bytes by first   *)
(* occurrence in the input.                                                 *)
C7_TopEightStable ==
    pcL = "done" =>
        /\ Len(langResult) = Min(Limit, Cardinality(RefLangs(repos, Len(repos))))
        /\ \A p \in DOMAIN langResult :
              RankOf(repos, Len(repos), langResult[p].lang) = p

C7_Witness ==
    /\ pcL = "done"
    /\ Cardinality(RefLangs(repos, Len(repos))) > Limit
    /\ Len(langResult) = Limit
    /\ langResult[1].lang = NumLangs
    /\ sorted[2].bytes = sorted[3].bytes

(* C9: the result is the empty list or a list whose percentages are all     *)
(* numbers between 0 and 100; with an entry retained, total is above 0.     *)
C9_NoDivisionByZero ==
    pcL = "done" =>
        /\ sorted # <<>> => total > 0
        /\ \A p \in DOMAIN langResult :
              /\ ~langResult[p].percentage.nan
              /\ langResult[p].percentage.tenths \in 0 .. 1000

(* With total above 0 the percentages are numbers and sum to 100.0 within   *)
(* 0.1 times the number of entries.                                         *)
PercentagesSumWhenTotalPositive ==
    (pcL = "done" /\ total > 0) =>
        /\ \A p \in DOMAIN langResult :
              /\ ~langResult[p].percentage.nan
              /\ langResult[p].percentage.tenths \in 0 .. 1000
        /\ Abs(SumTenths(langResult) - 1000) <= Len(langResult)

----------------------------------------------------------------------------
(* Properties of updateReadme *)

(* C10: with the same fetched stats, a second run of updateReadme leaves    *)
(* README.md as the first run left it, whatever the initial content and     *)
(* the number and order of its markers.                                     *)
C10_SpliceIdempotent ==
    (pcR = "idle" /\ runs >= 2) => readmeContent = prevContent

EndBeforeStart(content) ==
    /\ Includes(content, startMarker)
    /\ Includes(content, endMarker)
    /\ IndexOf(content, endMarker) < IndexOf(content, startMarker)

(* A second run changes nothing unless the first end marker comes before    *)
(* the first start marker.                                                  *)
SpliceIdempotentUnlessEndFirst ==
    (pcR = "idle" /\ runs >= 2 /\ ~EndBeforeStart(prevContent))
        => readmeContent = prevContent

====
